---- MODULE Spec2Model ----
(***************************************************************************)
(* Handle management of shapely/geometry/base.py: the geometry factory,    *)
(* the wrapper's destructor and null guard, and the two part sequences,    *)
(* over an abstract GEOS engine that hands out storage blocks.             *)
(***************************************************************************)
EXTENDS Integers, Sequences, FiniteSets, TLC

\* ------------------------------------------------------------------ bounds
MaxBlocks == 2
MaxWrappers == 3
MaxParts == 2

Blocks == 1..MaxBlocks
Wrappers == 1..MaxWrappers

\* ------------------------------------------------------- registry (l.14-23)
GEOMETRY_TYPES ==
  << "Point", "LineString", "LinearRing", "Polygon", "MultiPoint",
     "MultiLineString", "MultiPolygon", "GeometryCollection" >>

\* Tags the engine may report: the eight known ones, the negative ones that
\* Python's list indexing wraps, and one beyond each end.
TagDomain == (0 - Len(GEOMETRY_TYPES) - 1)..Len(GEOMETRY_TYPES)

\* ------------------------------------------------------------ raw handles
\* A raw handle names a storage block and a place in it: part = -1 is the
\* block's own geometry, part = k >= 0 is its k-th member (an alias into the
\* block).  NULL is None / the null pointer; WILD is a pointer into no block.
NULL == [blk |-> 0, part |-> 0 - 1]
WILD == [blk |-> 0, part |-> 0]
Root(b) == [blk |-> b, part |-> 0 - 1]
Member(b, k) == [blk |-> b, part |-> k]

FreeBlock == [st |-> "free", tag |-> 0, kids |-> << >>, rel |-> 0]
NewBlock(tag, kids) == [st |-> "live", tag |-> tag, kids |-> kids, rel |-> 0]

\* Python object defaults of BaseGeometry (class attributes, l.83-88).
\* owned = TRUE is the source's _owned: the storage belongs to another wrapper.
Blank(cls) ==
  [st |-> "live", cls |-> cls, geom |-> NULL, p |-> 0, owned |-> FALSE,
   ndim |-> 0, via |-> "new", src |-> 0]
Unused ==
  [st |-> "unused", cls |-> "", geom |-> NULL, p |-> 0, owned |-> FALSE,
   ndim |-> 0, via |-> "none", src |-> 0]

NoSeq == [kind |-> "none", p |-> 0, geom |-> NULL, ndim |-> 0, factory |-> ""]
NoIter == [st |-> "none", i |-> 0, M |-> 0]
Idle == [pc |-> "idle", g |-> 0, i |-> 0, ret |-> ""]
NoReq == [set |-> FALSE, geom |-> NULL, n |-> 0]
Result(op, x, i, err, val, name, table) ==
  [op |-> op, x |-> x, i |-> i, err |-> err, val |-> val, name |-> name,
   table |-> table, fac |-> FALSE, raw |-> NULL]
\* ... of an operation that handed raw to geom_factory
Made(r, raw) == [r EXCEPT !.fac = TRUE, !.raw = raw]

VARIABLES
  eng,     \* engine storage: block -> state, type tag, member tags, releases
  w,       \* wrapper objects
  seq,     \* the part sequence object (GeometrySequence or Heterogeneous...)
  it,      \* the generator made by GeometrySequence.__iter__
  frame,   \* position inside _get_geom_item
  req,     \* the GEOSGetGeometryN call of the operation in progress / last done
  res      \* outcome of the last operation

vars == << eng, w, seq, it, frame, req, res >>

\* ------------------------------------------------------------ the engine
IsLive(e, h) == h.blk \in Blocks /\ e[h.blk].st = "live"

\* lgeos.GEOSGeomTypeId(g): the tag of a geometry in live storage; reading a
\* released or wild pointer can report anything.
GEOSGeomTypeId(e, h) ==
  IF IsLive(e, h)
  THEN IF h.part < 0 THEN {e[h.blk].tag}
       ELSE IF h.part < Len(e[h.blk].kids) THEN {e[h.blk].kids[h.part + 1]}
       ELSE TagDomain
  ELSE TagDomain

\* lgeos.GEOSGetNumGeometries(geom)
GEOSGetNumGeometries(e, h) ==
  IF IsLive(e, h) /\ h.part < 0 THEN Len(e[h.blk].kids) ELSE 1

\* lgeos.GEOSGetGeometryN(geom, n): the n-th member, an alias into geom's
\* block; for n outside 0..count-1 the engine fails (NULL) or reads past its
\* array (WILD).
GEOSGetGeometryN(e, h, n) ==
  IF IsLive(e, h) /\ h.part < 0 /\ 0 <= n /\ n < Len(e[h.blk].kids)
  THEN {Member(h.blk, n)}
  ELSE {NULL, WILD}

\* lgeos.GEOSGeom_destroy(g): one release of the block g points into.
GEOSGeom_destroy(e, h) ==
  IF h.blk \in Blocks
  THEN [e EXCEPT ![h.blk].st = "released",
                 ![h.blk].rel = IF @ < 2 THEN @ + 1 ELSE @]
  ELSE e

\* The engine's answers to a type query made for handle h (none is made for
\* NULL: geometry_type_name raises first).
TypeIdAnswers(e, h) == IF h = NULL THEN {0} ELSE GEOSGeomTypeId(e, h)

FreeBlocks(e) == {b \in Blocks : e[b].st = "free"}
FreshBlock(e) == CHOOSE b \in FreeBlocks(e) : \A c \in FreeBlocks(e) : b <= c
UnusedWrappers(ws) == {x \in Wrappers : ws[x].st = "unused"}
FreshWrapper(ws) ==
  CHOOSE x \in UnusedWrappers(ws) : \A y \in UnusedWrappers(ws) : x <= y

\* ----------------------------------------------------- geometry_type_name
\* (variant: the table is read one place off)
PyIndex_OneBased(list, i) ==
  IF 1 <= i /\ i <= Len(list) THEN [err |-> "", val |-> list[i]]
  ELSE [err |-> "IndexError", val |-> ""]
\* Python list indexing list[i]: negative i counts from the end.
PyIndex(list, i) ==
  IF 0 <= i /\ i < Len(list) THEN [err |-> "", val |-> list[i + 1]]
  ELSE IF i < 0 /\ 0 - Len(list) <= i
       THEN [err |-> "", val |-> list[Len(list) + i + 1]]
       ELSE [err |-> "IndexError", val |-> ""]

\* geometry_type_name(g), with tag the engine's answer for g.
geometry_type_name(g, tag) ==
  IF g = NULL THEN [err |-> "InvalidGeometryError", val |-> ""]
  ELSE PyIndex(GEOMETRY_TYPES, tag)

\* ------------------------------------------------------------ geom_factory
\* geom_factory(g, parent) building wrapper y; tag is the engine's answer.
geom_factory(ws, y, g, parent, tag) ==
  IF g = NULL THEN [err |-> "InvalidGeometryError", w |-> ws]
  ELSE LET name == geometry_type_name(g, tag) IN
       IF name.err # "" THEN [err |-> name.err, w |-> ws]
       ELSE [err |-> "",
             w |-> [ws EXCEPT ![y] = [Blank(name.val) EXCEPT
                                        !.geom = g, !.p = parent, !.ndim = 2,
                                        !.via = "factory"]]]

\* exceptNull's test on the receiver
IsNullReceiver(wr) == wr.geom = NULL

\* Shapes of engine results: a type tag and the tags of the members.
Shape(tag, kids) == [tag |-> tag, kids |-> kids]
NoShape == Shape(0, << >>)
MultiTypes == {"MultiPoint", "MultiLineString", "MultiPolygon",
               "GeometryCollection"}

Init ==
  /\ eng = [b \in Blocks |-> FreeBlock]
  /\ w = [x \in Wrappers |-> Unused]
  /\ seq = NoSeq
  /\ it = NoIter
  /\ frame = Idle
  /\ req = NoReq
  /\ res = Result("init", 0, 0, "", 0, "", FALSE)

\* ------------------------------------------------------- wrapper operations
\* BaseGeometry(): a wrapper with no handle.
Construct ==
  /\ frame.pc = "idle"
  /\ UnusedWrappers(w) # {}
  /\ LET y == FreshWrapper(w) IN
       /\ w' = [w EXCEPT ![y] = Blank("BaseGeometry")]
       /\ res' = Result("construct", y, 0, "", y, "", FALSE)
  /\ req' = NoReq
  /\ UNCHANGED << eng, seq, it, frame >>

\* Unpickling: __reduce__ names the class and the bytes, the class is built
\* empty and __setstate__ installs the handle wkb.deserialize allocates.
SetState(sh) ==
  /\ frame.pc = "idle"
  /\ UnusedWrappers(w) # {} /\ FreeBlocks(eng) # {}
  /\ sh.tag \in 0..(Len(GEOMETRY_TYPES) - 1)
  /\ LET y == FreshWrapper(w)
         b == FreshBlock(eng) IN
       /\ eng' = [eng EXCEPT ![b] = NewBlock(sh.tag, sh.kids)]
       /\ w' = [w EXCEPT ![y] = [Blank(GEOMETRY_TYPES[sh.tag + 1]) EXCEPT
                                   !.geom = Root(b), !.via = "pickle"]]
       /\ res' = Result("setstate", y, 0, "", y, "", FALSE)
  /\ req' = NoReq
  /\ UNCHANGED << seq, it, frame >>

\* The _geom property setter: the wrapper's handle is replaced by a freshly
\* allocated geometry of the same type; the old storage is not released.
SetGeom(x, sh) ==
  /\ frame.pc = "idle"
  /\ w[x].st = "live" /\ w[x].geom # NULL /\ w[x].geom.part < 0
  /\ IsLive(eng, w[x].geom) /\ eng[w[x].geom.blk].tag = sh.tag
  /\ FreeBlocks(eng) # {}
  /\ LET b == FreshBlock(eng) IN
       /\ eng' = [eng EXCEPT ![b] = NewBlock(sh.tag, sh.kids)]
       /\ w' = [w EXCEPT ![x].geom = Root(b)]
  /\ res' = Result("set_geom", x, 0, "", 0, "", FALSE)
  /\ req' = NoReq
  /\ UNCHANGED << seq, it, frame >>

\* BaseGeometry.__del__
DelReleases(wr) == wr.geom # NULL /\ ~wr.owned
\* (variant: the destructor forgets to clear the handle)
DelClear_Keep(wr) == [wr EXCEPT !.st = "dead", !.p = 0]
DelClear(wr) == [wr EXCEPT !.st = "dead", !.geom = NULL, !.p = 0]

\* The destructor runs when nothing refers to the wrapper any more (the
\* sequence refers to its parent, a child to its __p__), and may run again
\* on a wrapper already destroyed.
Del(x) ==
  /\ frame.pc = "idle"
  /\ w[x].st \in {"live", "dead"}
  /\ ~(seq.kind # "none" /\ seq.p = x)
  /\ \A c \in Wrappers : ~(w[c].st = "live" /\ w[c].p = x)
  /\ eng' = IF DelReleases(w[x]) THEN GEOSGeom_destroy(eng, w[x].geom) ELSE eng
  /\ w' = [w EXCEPT ![x] = DelClear(w[x])]
  /\ res' = Result("del", x, 0, "", IF DelReleases(w[x]) THEN 1 ELSE 0, "",
                    FALSE)
  /\ req' = NoReq
  /\ UNCHANGED << seq, it, frame >>

\* geometryType(), under the exceptNull guard.
GeometryType(x, tag) ==
  /\ frame.pc = "idle"
  /\ w[x].st = "live"
  /\ res' = IF IsNullReceiver(w[x])
            THEN Result("geometryType", x, 0, "NullGeometryError", 0, "", FALSE)
            ELSE LET name == geometry_type_name(w[x].geom, tag) IN
                 Result("geometryType", x, tag, name.err, 0, name.val, FALSE)
  /\ req' = NoReq
  /\ UNCHANGED << eng, w, seq, it, frame >>

\* coords: the exceptNull guard, then a CoordinateSequence over the wrapper;
\* BaseMultiPartGeometry overrides the property to raise NotImplementedError.
Coords(x) ==
  /\ frame.pc = "idle"
  /\ w[x].st = "live"
  /\ res' = IF w[x].cls \in MultiTypes
            THEN Result("coords", x, 0, "UnsupportedOperationError", 0, "",
                        FALSE)
            ELSE IF IsNullReceiver(w[x])
            THEN Result("coords", x, 0, "NullGeometryError", 0, "", FALSE)
            ELSE Result("coords", x, 0, "", 0, "", FALSE)
  /\ req' = NoReq
  /\ UNCHANGED << eng, w, seq, it, frame >>

\* What a backend entry can do when handed a receiver without a handle: the
\* table is the backend's, so it may raise or hand back a value.
ImpOnNull == {"NullGeometryError", ""}

\* area, length, distance, bounds, relate, project and the predicates:
\* return self.imp[name](self, ...)
ScalarOp(x, out) ==
  /\ frame.pc = "idle"
  /\ w[x].st = "live"
  /\ out \in (IF IsNullReceiver(w[x]) THEN ImpOnNull ELSE {""})
  /\ res' = Result("scalar", x, 0, out, 0, "", TRUE)
  /\ req' = NoReq
  /\ UNCHANGED << eng, w, seq, it, frame >>

\* boundary, centroid, convex_hull, envelope, buffer, simplify, the set
\* operations, interpolate: return geom_factory(self.imp[name](self, ...)).
\* The backend answers NULL or a freshly allocated geometry of shape sh.
TopoOp(x, out, fresh, sh) ==
  /\ frame.pc = "idle"
  /\ w[x].st = "live"
  /\ out \in (IF IsNullReceiver(w[x]) THEN ImpOnNull ELSE {""})
  /\ UnusedWrappers(w) # {}
  /\ fresh => FreeBlocks(eng) # {} /\ ~IsNullReceiver(w[x]) /\ out = ""
  /\ IF out # ""
     THEN /\ res' = Result("topo", x, 0, out, 0, "", TRUE)
          /\ UNCHANGED << eng, w >>
     ELSE LET y == FreshWrapper(w)
              tag == IF fresh THEN sh.tag ELSE 0
              g == IF fresh THEN Root(FreshBlock(eng)) ELSE NULL
              e1 == IF fresh
                    THEN [eng EXCEPT ![g.blk] = NewBlock(sh.tag, sh.kids)]
                    ELSE eng
              made == geom_factory(w, y, g, 0, tag) IN
          /\ eng' = e1
          /\ w' = made.w
          /\ res' = Made(Result("topo", x, tag, made.err,
                                 IF made.err = "" THEN y ELSE 0, "", TRUE), g)
  /\ req' = NoReq
  /\ UNCHANGED << seq, it, frame >>

\* ---------------------------------------------------------- part sequences
\* GeometrySequence(parent, type) / HeterogeneousGeometrySequence(parent),
\* made by a multi-part wrapper for its members; a sequence made earlier and
\* its generator are dropped.
NewSeq(x, kind, type) ==
  /\ frame.pc = "idle"
  /\ w[x].st = "live" /\ w[x].geom # NULL /\ w[x].geom.part < 0
  /\ seq' = [kind |-> kind, p |-> x, geom |-> NULL, ndim |-> 0,
             factory |-> type]
  /\ it' = NoIter
  /\ res' = Result("new_seq", x, 0, "", 0, "", FALSE)
  /\ req' = NoReq
  /\ UNCHANGED << eng, w, frame >>

\* A MultiPoint hands out GeometrySequence(self, Point); a GeometryCollection
\* hands out HeterogeneousGeometrySequence(self).
NewHomogeneousSeq(x) == w[x].cls = "MultiPoint" /\ NewSeq(x, "homo", "Point")
NewHeterogeneousSeq(x) ==
  w[x].cls = "GeometryCollection" /\ NewSeq(x, "hetero", "")

\* The sequence and its generator go out of scope.
DropSeq ==
  /\ frame.pc = "idle"
  /\ seq.kind # "none"
  /\ seq' = NoSeq
  /\ it' = NoIter
  /\ res' = Result("drop_seq", seq.p, 0, "", 0, "", FALSE)
  /\ req' = NoReq
  /\ UNCHANGED << eng, w, frame >>

\* (variant: the handle is cached at the first access and trusted after)
_update_Once(sq, ws) ==
  IF sq.geom = NULL
  THEN [sq EXCEPT !.geom = ws[sq.p].geom, !.ndim = ws[sq.p].ndim]
  ELSE sq
\* GeometrySequence._update
_update(sq, ws) == [sq EXCEPT !.geom = ws[sq.p].geom, !.ndim = ws[sq.p].ndim]

\* GeometrySequence.__len__ : the sequence after it, and the count
len_seq(sq, ws) == _update(sq, ws)
len_val(sq, ws, e) == GEOSGetNumGeometries(e, len_seq(sq, ws).geom)

Length ==
  /\ frame.pc = "idle"
  /\ seq.kind # "none"
  /\ seq' = len_seq(seq, w)
  /\ res' = Result("len", seq.p, 0, "", len_val(seq, w, eng), "", FALSE)
  /\ req' = NoReq
  /\ UNCHANGED << eng, w, it, frame >>

\* (variant: the upper test is off by one)
OutOfRange_Loose(i, M) == i + M < 0 \/ i > M
\* The index test of __getitem__
OutOfRange(i, M) == i + M < 0 \/ i >= M

\* The index __getitem__ hands to _get_geom_item: ii is computed, i is passed.
ItemIndex(i, M) == i

\* _get_geom_item(i) on sequence sq, for the caller ret ("getitem" or "iter")
\* whose own index was ci.
\* Homogeneous: g = self._factory() here, then the steps HomoMark and
\* HomoInstall.  Heterogeneous: GEOSGetGeometryN and geom_factory here, then
\* the step HetMark.  itOk / itFail: the generator after a started item and
\* after an exception.
BeginItem(sq, ci, i, ret, itOk, itFail) ==
  /\ UnusedWrappers(w) # {}
  /\ seq' = sq
  /\ eng' = eng
  /\ LET y == FreshWrapper(w) IN
     IF sq.kind = "homo"
     THEN /\ w' = [w EXCEPT ![y] = [Blank(sq.factory) EXCEPT
                                      !.via = "seq", !.src = sq.p]]
          /\ frame' = [pc |-> "homo_mark", g |-> y, i |-> i, ret |-> ret]
          /\ req' = NoReq
          /\ res' = Result(ret, sq.p, ci, "", 0, "", FALSE)
          /\ it' = itOk
     ELSE \E sub \in GEOSGetGeometryN(eng, sq.geom, i) :
          \E tag \in TypeIdAnswers(eng, sub) :
            LET made == geom_factory(w, y, sub, 0, tag) IN
            /\ req' = [set |-> TRUE, geom |-> sq.geom, n |-> i]
            /\ IF made.err # ""
               THEN /\ w' = w
                    /\ frame' = Idle
                    /\ res' = Made(Result(ret, sq.p, ci, made.err, 0, "",
                                           FALSE), sub)
                    /\ it' = itFail
               ELSE /\ w' = [made.w EXCEPT ![y].via = "seq", ![y].src = sq.p]
                    /\ frame' = [pc |-> "het_mark", g |-> y, i |-> i,
                                 ret |-> ret]
                    /\ res' = Made(Result(ret, sq.p, ci, "", 0, "", FALSE),
                                    sub)
                    /\ it' = itOk

\* (variant: the member is left owning)
MarkOwned_Skip(wr) == wr
\* g._owned = True
MarkOwned(wr) == [wr EXCEPT !.owned = TRUE]

\* GeometrySequence._get_geom_item, second statement
HomoMark ==
  /\ frame.pc = "homo_mark"
  /\ w' = [w EXCEPT ![frame.g] = MarkOwned(w[frame.g])]
  /\ frame' = [frame EXCEPT !.pc = "homo_install"]
  /\ UNCHANGED << eng, seq, it, req, res >>

\* GeometrySequence._get_geom_item, third statement and return
HomoInstall ==
  /\ frame.pc = "homo_install"
  /\ \E h \in GEOSGetGeometryN(eng, seq.geom, frame.i) :
       w' = [w EXCEPT ![frame.g].geom = h]
  /\ req' = [set |-> TRUE, geom |-> seq.geom, n |-> frame.i]
  /\ res' = [res EXCEPT !.val = frame.g]
  /\ frame' = Idle
  /\ UNCHANGED << eng, seq, it >>

\* HeterogeneousGeometrySequence._get_geom_item, third statement and return
HetMark ==
  /\ frame.pc = "het_mark"
  /\ w' = [w EXCEPT ![frame.g] = MarkOwned(w[frame.g])]
  /\ res' = [res EXCEPT !.val = frame.g]
  /\ frame' = Idle
  /\ UNCHANGED << eng, seq, it, req >>

\* GeometrySequence.__getitem__(i)
GetItem(i) ==
  /\ frame.pc = "idle"
  /\ seq.kind # "none"
  /\ LET sq == len_seq(_update(seq, w), w)
         M == len_val(_update(seq, w), w, eng) IN
     IF OutOfRange(i, M)
     THEN /\ seq' = sq
          /\ res' = Result("getitem", seq.p, i, "IndexOutOfRange", 0, "", FALSE)
          /\ req' = NoReq
          /\ UNCHANGED << eng, w, it, frame >>
     ELSE BeginItem(sq, i, ItemIndex(i, M), "getitem", it, it)

\* iter(sequence): the generator object; its body has not started.
Iter ==
  /\ frame.pc = "idle"
  /\ seq.kind # "none"
  /\ it' = [st |-> "new", i |-> 0, M |-> 0]
  /\ res' = Result("iter_new", seq.p, 0, "", 0, "", FALSE)
  /\ req' = NoReq
  /\ UNCHANGED << eng, w, seq, frame >>

\* next(generator): the body of __iter__ up to its next yield.  The first
\* call runs _update and range(self.__len__()); a later call resumes the loop.
IterNext ==
  /\ frame.pc = "idle"
  /\ seq.kind # "none"
  /\ it.st \in {"new", "active"}
  /\ LET first == it.st = "new"
         sq == IF first THEN len_seq(_update(seq, w), w) ELSE seq
         M == IF first THEN len_val(_update(seq, w), w, eng) ELSE it.M
         i == IF first THEN 0 ELSE it.i
         done == [st |-> "done", i |-> i, M |-> M] IN
     IF i < M
     THEN BeginItem(sq, i, i, "iter", [st |-> "active", i |-> i + 1, M |-> M],
                    done)
     ELSE /\ seq' = sq
          /\ it' = done
          /\ res' = Result("iter", seq.p, i, "StopIteration", 0, "", FALSE)
          /\ req' = NoReq
          /\ UNCHANGED << eng, w, frame >>

\* Engine results the sequences are exercised on: a point, multi-points and
\* collections of up to MaxParts members.
PointKids(n) == [k \in 1..n |-> 0]
MixedKids(n) == [k \in 1..n |-> (k - 1) % 2]
SeqShapes ==
  {Shape(0, << >>)} \cup {Shape(4, PointKids(n)) : n \in 0..MaxParts}
    \cup {Shape(7, MixedKids(n)) : n \in 0..MaxParts}
Indexes == 0..MaxParts
NegIndexes == (0 - MaxParts - 1)..(0 - 1)

Next ==
  \/ \E sh \in SeqShapes : SetState(sh)
  \/ \E x \in Wrappers, sh \in SeqShapes : TopoOp(x, "", TRUE, sh)
  \/ \E x \in Wrappers, sh \in SeqShapes : SetGeom(x, sh)
  \/ \E x \in Wrappers : Del(x)
  \/ \E x \in Wrappers : NewHomogeneousSeq(x)
  \/ \E x \in Wrappers : NewHeterogeneousSeq(x)
  \/ DropSeq
  \/ Length
  \/ \E i \in Indexes : GetItem(i)
  \/ \E i \in NegIndexes : GetItem(i)
  \/ Iter
  \/ IterNext
  \/ HomoMark
  \/ HomoInstall
  \/ HetMark

Spec == Init /\ [][Next]_vars

\* ------------------------------------------- the wrapper layer on its own
\* Engine results of every tag the registry lookup can meet, and the
\* unpickled point the operations are first called on.
TypeShapes == {Shape(t, << >>) : t \in TagDomain}
ReceiverShape == Shape(0, << >>)

NextTypes ==
  \/ Construct
  \/ SetState(ReceiverShape)
  \/ \E x \in Wrappers, out \in ImpOnNull : TopoOp(x, out, FALSE, NoShape)
  \/ \E x \in Wrappers, sh \in TypeShapes : TopoOp(x, "", TRUE, sh)
  \/ \E x \in Wrappers, out \in ImpOnNull : ScalarOp(x, out)
  \/ \E x \in Wrappers : \E tag \in TypeIdAnswers(eng, w[x].geom) :
        GeometryType(x, tag)
  \/ \E x \in Wrappers : Coords(x)
  \/ \E x \in Wrappers : Del(x)

SpecTypes == Init /\ [][NextTypes]_vars

\* ================================================================ claims
\* Wrappers a part sequence has handed to its caller.
Children ==
  {c \in Wrappers : w[c].via = "seq" /\ ~(frame.pc # "idle" /\ frame.g = c)}
\* The member count of the handle the sequence's parent holds now.
ParentCount == Len(eng[w[seq.p].geom.blk].kids)

\* ---- C1
\* A destructor step releases exactly when the wrapper's handle is non-null
\* and owning, leaves the handle cleared, and changes nothing when the
\* wrapper was destroyed before.
DelStepOK ==
  \A x \in Wrappers :
    (res'.op = "del" /\ res'.x = x /\ res' # res) =>
      /\ w'[x].geom = NULL
      /\ IF w[x].geom # NULL /\ ~w[x].owned
         THEN /\ eng'[w[x].geom.blk].rel = eng[w[x].geom.blk].rel + 1
              /\ \A b \in Blocks \ {w[x].geom.blk} : eng'[b] = eng[b]
         ELSE eng' = eng
      /\ w[x].st = "dead" => (eng' = eng /\ w' = w)

\* C1: over any sequence of wrapper creations (geom_factory, part-sequence
\* item access or iteration, deserialization) and destructions, every engine
\* storage block is released at most once, and each destructor step behaves
\* as DelStepOK says.
C1_ReleasedAtMostOnce ==
  /\ [](\A b \in Blocks : eng[b].rel <= 1)
  /\ [][DelStepOK]_vars

\* A wrapper that owned its storage has been destroyed, its block released
\* once, and the destructor has just run on it again without releasing.
C1_Witness ==
  /\ res.op = "del" /\ res.val = 0
  /\ w[res.x].st = "dead" /\ w[res.x].via \in {"pickle", "factory"}
  /\ \E b \in Blocks : eng[b].rel = 1
  /\ \E c \in Children : w[c].st = "dead"

\* ---- C2
\* Destroying a wrapper a part sequence produced changes neither the engine
\* storage nor any other wrapper.
ChildDelStepOK ==
  \A c \in Wrappers :
    (res'.op = "del" /\ res'.x = c /\ w[c].via = "seq") =>
      /\ eng' = eng
      /\ \A y \in Wrappers \ {c} : w'[y] = w[y]

\* C2: every child a part sequence (either variant, indexed access or
\* iteration) has returned is non-owning, and destroying a child releases
\* no storage and leaves the parent and the siblings as they were.
C2_ChildrenNeverRelease ==
  /\ [](\A c \in Children : w[c].st = "live" => w[c].owned)
  /\ [][ChildDelStepOK]_vars

\* A child has just been destroyed while its parent and a sibling are alive
\* on storage that is still live.
C2_Witness ==
  /\ res.op = "del" /\ res.x \in Children /\ w[res.x].st = "dead"
  /\ w[w[res.x].src].st = "live" /\ IsLive(eng, w[w[res.x].src].geom)
  /\ \E c \in Children :
       /\ c # res.x /\ w[c].st = "live" /\ w[c].src = w[res.x].src
       /\ IsLive(eng, w[c].geom)

\* ---- C7
\* An indexed access that fails the index test creates no wrapper and asks
\* the engine for no member.
RangeErrorStepOK ==
  (res'.op = "getitem" /\ res'.err = "IndexOutOfRange") =>
    (w' = w /\ eng' = eng /\ ~req'.set /\ frame' = frame)

\* C7: with N the parent's member count, item_at(i) fails with
\* IndexOutOfRange exactly when i >= N or i < -N, then creates no child and
\* makes no engine member request; length() returns N.
C7_IndexOutOfRange ==
  /\ [](res.op = "getitem" =>
          (res.err = "IndexOutOfRange" <=>
             (res.i >= ParentCount \/ res.i < 0 - ParentCount)))
  /\ [](res.op = "len" => res.val = ParentCount)
  /\ [][RangeErrorStepOK]_vars

\* item_at(N) on a parent with N > 0 members has failed.
C7_Witness ==
  /\ res.op = "getitem" /\ res.err = "IndexOutOfRange"
  /\ ParentCount > 0 /\ res.i = ParentCount

\* ---- C3
\* C3: for -N <= i < 0, item_at(i) asks the engine for member N+i of the
\* parent's handle and returns the child item_at(N+i) returns.
C3_NegativeIndexWraps ==
  (res.op = "getitem" /\ res.i < 0 /\ res.err # "IndexOutOfRange") =>
    /\ req.set => req.n = ParentCount + res.i
    /\ (frame.pc = "idle" /\ res.val # 0) =>
         w[res.val].geom = Member(w[seq.p].geom.blk, ParentCount + res.i)

\* ---- C8
\* Live wrappers that would release block b when destroyed.
Owners(b) ==
  {x \in Wrappers : w[x].st = "live" /\ w[x].geom.blk = b /\ ~w[x].owned}

\* C8: in every reachable state, the steps inside a part-sequence item
\* access included, at most one handle is owning for a storage block.
C8_SingleOwner == \A b \in Blocks : Cardinality(Owners(b)) <= 1

\* ---- C10
\* C10: every child a part sequence produced refers back to the parent it
\* was derived from, so that while the child is outstanding the parent is
\* alive and the storage the child points into has not been released.
C10_ChildKeepsParent ==
  \A c \in Children :
    w[c].st = "live" =>
      /\ w[c].p # 0 /\ w[c].p = w[c].src
      /\ w[w[c].src].st = "live"
      /\ w[c].geom.blk \in Blocks => eng[w[c].geom.blk].st = "live"

\* ---- C9
\* C9 as stated: every length query, every indexed access and every child an
\* iteration yields, an iteration already in progress included, is derived
\* from the handle the parent holds now, with an index below that handle's
\* member count.
C9_NeverStale ==
  /\ res.op = "len" => res.val = ParentCount
  /\ (res.op \in {"getitem", "iter"} /\ req.set) =>
       (req.geom = w[seq.p].geom /\ req.n < ParentCount)

\* C9 as the code has it: a length query and an indexed access re-read the
\* parent's handle first, so the count returned and the member requested are
\* those of the handle the parent holds now, the index having passed the
\* range test against that handle's count; an iteration re-reads the parent's
\* handle only when it starts: its first member is requested from the handle
\* the parent holds now, every later one from the handle the sequence has
\* cached, with an index below the count read when the iteration started.
C9_SyncOnAccess ==
  /\ res.op = "len" => (res.val = ParentCount /\ seq.geom = w[seq.p].geom)
  /\ res.op = "getitem" =>
       /\ seq.geom = w[seq.p].geom
       /\ req.set => /\ req.geom = w[seq.p].geom
                      /\ req.n = res.i
                      /\ res.i < ParentCount /\ res.i >= 0 - ParentCount
  /\ (res.op = "iter" /\ req.set) =>
       /\ req.geom = seq.geom /\ 0 <= req.n /\ req.n < it.M
       /\ req.n = 0 => (req.geom = w[seq.p].geom /\ 0 < ParentCount)

\* The parent's handle was replaced after a child had been taken from it,
\* and a later indexed access has asked the new handle for a member.
C9_Witness ==
  /\ res.op = "getitem" /\ req.set /\ frame.pc = "idle"
  /\ req.geom = w[seq.p].geom
  /\ \E c \in Children :
       /\ w[c].src = seq.p /\ w[c].geom.blk \in Blocks
       /\ w[c].geom.blk # w[seq.p].geom.blk

\* ---- C4
\* C4: on a wrapper without a handle every geometric operation fails with
\* NullGeometryError, and the guard runs before delegation: the operation
\* table is not entered with such a receiver.
C4_NullGuardBeforeDelegation ==
  (res.op \in {"scalar", "topo", "coords"} /\ w[res.x].st = "live"
     /\ w[res.x].geom = NULL) =>
    (res.err = "NullGeometryError" /\ ~res.table)

\* ---- C5
KnownTags == 0..(Len(GEOMETRY_TYPES) - 1)

\* C5: for a non-null handle whose engine tag is outside 0..7, the negative
\* tags included, the type lookup fails with an unchecked error and names no
\* type, and geom_factory produces no wrapper for it.
C5_UnknownTagFails ==
  /\ (res.op = "geometryType" /\ res.err # "NullGeometryError"
        /\ res.i \notin KnownTags) =>
       (res.err = "IndexError" /\ res.name = "")
  /\ (res.op = "topo" /\ res.fac /\ res.raw # NULL /\ res.i \notin KnownTags) =>
       (res.err = "IndexError" /\ res.val = 0)

\* ---- C6
\* A geom_factory call on a null value leaves the wrappers as they were.
NullFactoryStepOK ==
  (res'.op = "topo" /\ res'.fac /\ res'.raw = NULL) => w' = w

\* C6: for a non-null raw handle r whose engine tag t is in 0..7,
\* geom_factory(r) returns a wrapper of the class the registry names at t,
\* holding r and owning it, and geometryType() of that wrapper is that name;
\* for a null r it fails with InvalidGeometryError and produces no wrapper.
C6_FactoryTypesAndOwns ==
  /\ []((res.op = "topo" /\ res.fac /\ res.raw # NULL
          /\ eng[res.raw.blk].tag \in KnownTags) =>
         /\ res.err = "" /\ res.val \in Wrappers
         /\ w[res.val].st = "live"
         /\ w[res.val].cls = GEOMETRY_TYPES[eng[res.raw.blk].tag + 1]
         /\ w[res.val].geom = res.raw
         /\ ~w[res.val].owned)
  /\ []((res.op = "geometryType" /\ w[res.x].via = "factory"
          /\ IsLive(eng, w[res.x].geom)
          /\ eng[w[res.x].geom.blk].tag \in KnownTags) =>
         /\ res.err = ""
         /\ res.name = GEOMETRY_TYPES[eng[w[res.x].geom.blk].tag + 1]
         /\ res.name = w[res.x].cls)
  /\ []((res.op = "topo" /\ res.fac /\ res.raw = NULL) =>
         (res.err = "InvalidGeometryError" /\ res.val = 0))
  /\ [][NullFactoryStepOK]_vars

\* geometryType() has answered "Polygon" for an owning Polygon wrapper the
\* factory built on a handle the engine tags 3.
C6_Witness ==
  /\ res.op = "geometryType" /\ res.name = "Polygon"
  /\ w[res.x].via = "factory" /\ w[res.x].cls = "Polygon"
  /\ ~w[res.x].owned /\ IsLive(eng, w[res.x].geom)
  /\ eng[w[res.x].geom.blk].tag = 3

====
